---------------------------- MODULE Spec2Model ----------------------------
(***************************************************************************)
(* State-machine model of the pptx-translator server.                      *)
(*                                                                         *)
(* Two builds of the server exist in the repository: the DeepL build       *)
(* (src/unnamed/part_000, with the translation cache) and the Google       *)
(* build (src/server.js, without a cache).  They share the tree walkers    *)
(* and the archive drivers line for line and differ only in translateText. *)
(* The variable `variant` says which build the process runs.               *)
(*                                                                         *)
(* A JavaScript string is a sequence of one-character strings; the three   *)
(* non-ASCII characters the skip pattern names are written as the tokens   *)
(* "EUR" (U+20AC), "GBP" (U+00A3) and "YEN" (U+00A5).                       *)
(*                                                                         *)
(* A JavaScript value is a record [k, v]:                                  *)
(*   k = "str"   v = the characters                                        *)
(*   k = "arr"   v = the elements                                          *)
(*   k = "obj"   v = the properties, [key, val], in Object.keys order      *)
(*   k = "undef" v = << >>                                                  *)
(***************************************************************************)
EXTENDS Integers, Sequences, FiniteSets, TLC

VARIABLES
    variant,           \* "deepl" (part_000) or "google" (server.js)
    translationCache,  \* the module-level Map of part_000: cache key -> value
    inflight,          \* backend calls issued and not yet answered
    reqs,              \* per transform request: the state of processPptx/processDocx
    client             \* a direct caller of translateText (two calls, same arguments)

vars == <<variant, translationCache, inflight, reqs, client>>

-----------------------------------------------------------------------------
(* JavaScript values *)

Str(s) == [k |-> "str", v |-> s]
Arr(s) == [k |-> "arr", v |-> s]
Obj(s) == [k |-> "obj", v |-> s]
Undefined == [k |-> "undef", v |-> << >>]
Prop(key, val) == [key |-> key, val |-> val]

Min(S) == CHOOSE x \in S : \A y \in S : x <= y
Max(S) == CHOOSE x \in S : \A y \in S : x >= y

RECURSIVE Flatten(_)
Flatten(ss) == IF ss = << >> THEN << >> ELSE Head(ss) \o Flatten(Tail(ss))

-----------------------------------------------------------------------------
(* Characters *)

Digits == {"0", "1", "2", "3", "4", "5", "6", "7", "8", "9"}
WhiteSpace == {" ", "\t", "\n"}

\* String.prototype.trim
Trim(s) ==
    LET keep == {i \in 1..Len(s) : s[i] \notin WhiteSpace}
    IN  IF keep = {} THEN << >> ELSE SubSeq(s, Min(keep), Max(keep))

\* the DeepL class without the euro sign
SkipClassDeepl_noEuro ==
    Digits \cup WhiteSpace \cup
    {".", ",", "-", "+", "%", "$", "GBP", ":", ";", "!", "?",
     "(", ")", "[", "]", "/", "\\"}

\* the character class of the skip pattern, per build
SkipClassDeepl ==
    Digits \cup WhiteSpace \cup
    {".", ",", "-", "+", "%", "EUR", "$", "GBP", ":", ";", "!", "?",
     "(", ")", "[", "]", "/", "\\"}
SkipClassGoogle ==
    Digits \cup WhiteSpace \cup {".", ",", "-", "+", "%", "EUR", "$", "GBP"}
SkipClass(v) == IF v = "deepl" THEN SkipClassDeepl ELSE SkipClassGoogle

\* /^[...]+$/.test(text)
SkipPatternTest(v, text) ==
    Len(text) >= 1 /\ \A i \in 1..Len(text) : text[i] \in SkipClass(v)

LowerCase == <<"a", "b", "c", "d", "e", "f", "g", "h", "i", "j", "k", "l", "m",
               "n", "o", "p", "q", "r", "s", "t", "u", "v", "w", "x", "y", "z">>
UpperCase == <<"A", "B", "C", "D", "E", "F", "G", "H", "I", "J", "K", "L", "M",
               "N", "O", "P", "Q", "R", "S", "T", "U", "V", "W", "X", "Y", "Z">>
toUpperCase(s) ==
    [i \in 1..Len(s) |->
        IF \E j \in 1..26 : LowerCase[j] = s[i]
        THEN UpperCase[CHOOSE j \in 1..26 : LowerCase[j] = s[i]]
        ELSE s[i]]

-----------------------------------------------------------------------------
(* Language resolution *)

slovenian == <<"s", "l", "o", "v", "e", "n", "i", "a", "n">>
croatian == <<"c", "r", "o", "a", "t", "i", "a", "n">>
serbian == <<"s", "e", "r", "b", "i", "a", "n">>
english == <<"e", "n", "g", "l", "i", "s", "h">>

LANG_CODES(v) ==
    IF v = "deepl"
    THEN (slovenian :> <<"S", "L">>) @@ (croatian :> <<"H", "R">>) @@
         (serbian :> <<"S", "R">>) @@ (english :> <<"E", "N">>)
    ELSE (slovenian :> <<"s", "l">>) @@ (croatian :> <<"h", "r">>) @@
         (serbian :> <<"s", "r">>) @@ (english :> <<"e", "n">>)

\* LANG_CODES[targetLang] || targetLang.toUpperCase()   (part_000)
\* LANG_CODES[targetLang] || targetLang                 (server.js)
langCode(v, targetLang) ==
    IF targetLang \in DOMAIN LANG_CODES(v) THEN LANG_CODES(v)[targetLang]
    ELSE IF v = "deepl" THEN toUpperCase(targetLang) ELSE targetLang

\* `${langCode}:${text}`
cacheKey(v, text, targetLang) == langCode(v, targetLang) \o <<":">> \o text

-----------------------------------------------------------------------------
(* The translation backend: what one remote call can come back with.       *)
(* DeepL build (fetch + response.ok + response.json()):                    *)
(*   fetchThrows       network error, fetch rejects                        *)
(*   notOk             HTTP status outside 2xx (429 and 456 included)      *)
(*   jsonThrows        the body is not JSON                                *)
(*   dataNull          the body is JSON null                               *)
(*   noTranslations    {} : no translations member                         *)
(*   emptyTranslations {"translations": []}                                *)
(*   entryNoText       {"translations": [{}]} : an entry without text      *)
(*   translated        {"translations": [{"text": t}]}                     *)
(* Google build (fetch + response.text() + JSON.parse):                    *)
(*   fetchThrows, jsonThrows, dataNull as above                            *)
(*   html              the body starts with "<!" or "<html" (rate limit)   *)
(*   noSegments        [null] : data[0] is falsy                           *)
(*   segmentsNotArray  [{}] : data[0] has no map method                    *)
(*   emptySegments     [[]] : data[0] is an empty array                    *)
(*   translated        [[[t, ...]]]                                        *)

Translations == {<<"Z", "d">>, <<"O", "j">>}

Resp(kind, text) == [kind |-> kind, text |-> text]

FailureKinds(v) ==
    IF v = "deepl"
    THEN {"fetchThrows", "notOk", "jsonThrows", "dataNull", "noTranslations",
          "emptyTranslations", "entryNoText"}
    ELSE {"fetchThrows", "html", "jsonThrows", "dataNull", "noSegments",
          "segmentsNotArray", "emptySegments"}

Responses(v) ==
    {Resp(kd, << >>) : kd \in FailureKinds(v)} \cup
    {Resp("translated", t) : t \in Translations}

-----------------------------------------------------------------------------
(* translateText *)

\* the three early returns
translateTextSkips(v, text) ==
    \/ text = << >> \/ Len(Trim(text)) = 0
    \/ SkipPatternTest(v, text)
    \/ Len(Trim(text)) < 2

\* a lookup that never finds the key
cacheHas_never(cache, v, text, targetLang) == FALSE

\* translationCache.has(cacheKey); the Google build has no cache
cacheHas(cache, v, text, targetLang) ==
    v = "deepl" /\ cacheKey(v, text, targetLang) \in DOMAIN cache

\* The synchronous part of a call, up to the first return or to the fetch.
\* done = TRUE: the call returns ret without a remote call.
translateTextBegin(cache, v, text, targetLang) ==
    IF translateTextSkips(v, text)
    THEN [done |-> TRUE, how |-> "skip", ret |-> Str(text)]
    ELSE IF cacheHas(cache, v, text, targetLang)
    THEN [done |-> TRUE, how |-> "hit",
          ret |-> cache[cacheKey(v, text, targetLang)]]
    ELSE [done |-> FALSE, how |-> "fetch", ret |-> Undefined]

\* the body of the fetch
fetchBody(v, text, targetLang) ==
    [text |-> text, target_lang |-> langCode(v, targetLang)]

\* translationCache.set(cacheKey, translated)
cacheSet(cache, key, val) == (key :> val) @@ cache

\* The rest of the call once the backend has answered: the value returned and
\* the cache it leaves.
translateTextResumeDeepl(cache, text, targetLang, resp) ==
    IF resp.kind \in {"fetchThrows", "notOk", "jsonThrows"}
    THEN [ret |-> Str(text), cache |-> cache]
    ELSE IF resp.kind \in {"dataNull", "noTranslations", "emptyTranslations"}
    THEN [ret |-> Str(text), cache |-> cache]
    ELSE LET translated == IF resp.kind = "entryNoText" THEN Undefined
                           ELSE Str(resp.text)
         IN  [ret |-> translated,
              cache |-> cacheSet(cache, cacheKey("deepl", text, targetLang),
                                 translated)]

translateTextResumeGoogle(cache, text, targetLang, resp) ==
    IF resp.kind \in {"fetchThrows", "html", "jsonThrows", "segmentsNotArray"}
    THEN [ret |-> Str(text), cache |-> cache]
    ELSE IF resp.kind \in {"dataNull", "noSegments"}
    THEN [ret |-> Str(text), cache |-> cache]
    ELSE IF resp.kind = "emptySegments"
    THEN [ret |-> Str(<< >>), cache |-> cache]
    ELSE [ret |-> Str(resp.text), cache |-> cache]

translateTextResume(cache, v, text, targetLang, resp) ==
    IF v = "deepl" THEN translateTextResumeDeepl(cache, text, targetLang, resp)
    ELSE translateTextResumeGoogle(cache, text, targetLang, resp)

-----------------------------------------------------------------------------
(* A direct caller of translateText: ClientCalls calls in a row with the   *)
(* same (text, targetLang), each awaited before the next.                  *)

ClientCalls == 2

T_empty == << >>
T_space == <<" ">>
T_dash == <<"-">>
T_3 == <<"3">>
T_42 == <<"4", "2">>
T_price == <<"1", "2", ",", "3", "4", " ", "EUR">>
T_total == <<"T", "o", "t", "a", "l", ":", " ", "1", "0", "EUR">>
T_Hi == <<"H", "i">>
T_a == <<"a">>
T_pad_a == <<" ", "a", " ">>
T_hash1 == <<"#", "1">>
T_paren == <<"(", "1", ")">>
T_yen == <<"YEN", "5">>

ClientTexts ==
    {T_empty, T_space, T_dash, T_3, T_42, T_price, T_total, T_Hi, T_a,
     T_pad_a, T_hash1, T_paren, T_yen}

ClientLangs == {slovenian, <<"s", "l">>, <<"h", "r">>}

ClientOff ==
    [text |-> << >>, targetLang |-> << >>, pc |-> "off", remote |-> 0,
     hist |-> << >>]

\* what the caller does with a returned value: record it, call again or stop
ClientReturn(c, how, ret) ==
    LET h == Append(c.hist, [how |-> how, ret |-> ret])
    IN  [c EXCEPT !.hist = h,
                  !.pc = IF Len(h) >= ClientCalls THEN "done" ELSE "ready"]

\* translateText(text, targetLang), up to its return or its fetch
ClientCall ==
    /\ client.pc = "ready"
    /\ LET b == translateTextBegin(translationCache, variant, client.text,
                                   client.targetLang)
       IN  IF b.done
           THEN /\ client' = ClientReturn(client, b.how, b.ret)
                /\ UNCHANGED inflight
           ELSE /\ client' = [client EXCEPT !.pc = "fetch",
                                            !.remote = client.remote + 1]
                /\ inflight' = inflight \cup
                       {[who |-> 0,
                         body |-> fetchBody(variant, client.text,
                                            client.targetLang)]}
    /\ UNCHANGED <<variant, translationCache, reqs>>

\* the backend answers; translateText finishes
ClientResponse ==
    /\ client.pc = "fetch"
    /\ \E resp \in Responses(variant) :
          LET r == translateTextResume(translationCache, variant, client.text,
                                       client.targetLang, resp)
          IN  /\ translationCache' = r.cache
              /\ client' = ClientReturn(client, resp.kind, r.ret)
    /\ inflight' = {c \in inflight : c.who # 0}
    /\ UNCHANGED <<variant, reqs>>

-----------------------------------------------------------------------------
(* Archive entry names and the two translatable-part patterns *)

Slash == <<"/">>
DotXml == <<".", "x", "m", "l">>
N_ppt == <<"p", "p", "t">>
N_word == <<"w", "o", "r", "d">>
N_slides == <<"s", "l", "i", "d", "e", "s">>
N_slideMasters == <<"s", "l", "i", "d", "e", "M", "a", "s", "t", "e", "r", "s">>
N_slideLayouts == <<"s", "l", "i", "d", "e", "L", "a", "y", "o", "u", "t", "s">>
N_notesSlides == <<"n", "o", "t", "e", "s", "S", "l", "i", "d", "e", "s">>
N_document == <<"d", "o", "c", "u", "m", "e", "n", "t">>
N_header == <<"h", "e", "a", "d", "e", "r">>
N_footer == <<"f", "o", "o", "t", "e", "r">>
N_comments == <<"c", "o", "m", "m", "e", "n", "t", "s">>
N_footnotes == <<"f", "o", "o", "t", "n", "o", "t", "e", "s">>
N_endnotes == <<"e", "n", "d", "n", "o", "t", "e", "s">>
N_styles == <<"s", "t", "y", "l", "e", "s">>

StartsAt(s, i, p) ==
    i + Len(p) - 1 <= Len(s) /\ SubSeq(s, i, i + Len(p) - 1) = p
EndsWith(s, p) ==
    Len(p) <= Len(s) /\ SubSeq(s, Len(s) - Len(p) + 1, Len(s)) = p

\* /ppt\/(slides|slideMasters|slideLayouts|notesSlides)\/.*\.xml$/
matchPptx(name) ==
    \E i \in 1..Len(name) :
      \E d \in {N_slides, N_slideMasters, N_slideLayouts, N_notesSlides} :
        LET pre == N_ppt \o Slash \o d \o Slash
        IN  /\ StartsAt(name, i, pre)
            /\ i + Len(pre) + Len(DotXml) - 1 <= Len(name)
            /\ EndsWith(name, DotXml)

\* /word\/(document|header[0-9]*|footer[0-9]*|comments|footnotes|endnotes)\.xml$/
matchDocx(name) ==
    \E i \in 1..Len(name) :
      \E b \in {N_document, N_header, N_footer, N_comments, N_footnotes,
                N_endnotes} :
        LET pre == N_word \o Slash \o b
            j == i + Len(pre)
            e == Len(name) - Len(DotXml)
        IN  /\ StartsAt(name, i, pre)
            /\ j - 1 <= e
            /\ EndsWith(name, DotXml)
            /\ IF b \in {N_header, N_footer}
               THEN \A k \in j..e : name[k] \in Digits
               ELSE j - 1 = e

entryNameMatches(kind, name) ==
    IF kind = "pptx" THEN matchPptx(name) ELSE matchDocx(name)

-----------------------------------------------------------------------------
(* Parsed trees *)

Falsy(x) == x.k = "undef" \/ (x.k = "str" /\ x.v = << >>)

PropPos(obj, key) == {j \in 1..Len(obj.v) : obj.v[j].key = key}
HasTruthyProp(x, key) ==
    /\ x.k = "obj"
    /\ \E j \in PropPos(x, key) : ~Falsy(x.v[j].val)
PropIndex(obj, key) == CHOOSE j \in PropPos(obj, key) : TRUE

RECURSIVE Get(_, _)
Get(node, path) ==
    IF path = << >> THEN node
    ELSE IF node.k = "arr" THEN Get(node.v[Head(path)], Tail(path))
    ELSE Get(node.v[Head(path)].val, Tail(path))

\* the assignment obj[...]...[i] = x at the end of `path`
RECURSIVE Put(_, _, _)
Put(node, path, x) ==
    IF path = << >> THEN x
    ELSE IF node.k = "arr"
    THEN [node EXCEPT !.v[Head(path)] = Put(@, Tail(path), x)]
    ELSE [node EXCEPT !.v[Head(path)].val = Put(@, Tail(path), x)]

\* obj['a:t'].length, obj['w:t'].length: the parser (explicitArray) puts every
\* child element in an array; an object has no length and the loop does not run
LengthOf(x) == IF x.k = "arr" THEN Len(x.v) ELSE 0

\* the test without its trim
isBareFragment_noTrim(text) == text.k = "str" /\ Len(text.v) > 0

\* typeof text === 'string' && text.trim().length > 0
isBareFragment(text) == text.k = "str" /\ Len(Trim(text.v)) > 0

\* typeof text === 'object' && text._    (the parser's `_` is always a string)
isWrapped(text) == HasTruthyProp(text, "_")

\* text._.trim().length > 0
isWrappedFragment(text) ==
    isWrapped(text) /\ Len(Trim(text.v[PropIndex(text, "_")].val.v)) > 0

-----------------------------------------------------------------------------
(* The tree walkers.  Each recursion is unrolled into the sequence of its  *)
(* translateText call sites, in call order; a call site is the path of the *)
(* string that the call reads and that its result is assigned to.  The     *)
(* walk only ever assigns to those strings, so the sites do not depend on  *)
(* the results.                                                            *)

RECURSIVE translateXmlObject(_, _)
translateXmlObject(obj, path) ==
    IF Falsy(obj) THEN << >>
    ELSE IF obj.k = "arr"
    THEN Flatten([i \in 1..Len(obj.v) |->
                    translateXmlObject(obj.v[i], Append(path, i))])
    ELSE IF obj.k = "obj"
    THEN LET own ==
               IF HasTruthyProp(obj, "a:t")
               THEN LET j == PropIndex(obj, "a:t")
                        at == obj.v[j].val
                    IN  Flatten([i \in 1..LengthOf(at) |->
                                   IF isBareFragment(at.v[i])
                                   THEN <<path \o <<j, i>>>>
                                   ELSE << >>])
               ELSE << >>
             rec == Flatten([j \in 1..Len(obj.v) |->
                               translateXmlObject(obj.v[j].val, Append(path, j))])
         IN  own \o rec
    ELSE << >>

RECURSIVE translateDocxObject(_, _)
translateDocxObject(obj, path) ==
    IF Falsy(obj) THEN << >>
    ELSE IF obj.k = "arr"
    THEN Flatten([i \in 1..Len(obj.v) |->
                    translateDocxObject(obj.v[i], Append(path, i))])
    ELSE IF obj.k = "obj"
    THEN LET own ==
               IF HasTruthyProp(obj, "w:t")
               THEN LET j == PropIndex(obj, "w:t")
                        wt == obj.v[j].val
                    IN  Flatten([i \in 1..LengthOf(wt) |->
                                   IF isWrapped(wt.v[i])
                                   THEN IF isWrappedFragment(wt.v[i])
                                        THEN <<path \o
                                               <<j, i, PropIndex(wt.v[i], "_")>>>>
                                        ELSE << >>
                                   ELSE IF isBareFragment(wt.v[i])
                                   THEN <<path \o <<j, i>>>>
                                   ELSE << >>])
               ELSE << >>
             rec == Flatten([j \in 1..Len(obj.v) |->
                               IF obj.v[j].key # "w:t"
                               THEN translateDocxObject(obj.v[j].val,
                                                        Append(path, j))
                               ELSE << >>])
         IN  own \o rec
    ELSE << >>

walk(kind, parsed) ==
    IF kind = "pptx" THEN translateXmlObject(parsed, << >>)
    ELSE translateDocxObject(parsed, << >>)

-----------------------------------------------------------------------------
(* Archives.  An entry's bytes are either the bytes of the upload          *)
(* (t = "raw": id names them, doc is what parser.parseStringPromise makes  *)
(* of them, Malformed when it rejects) or the bytes builder.buildObject    *)
(* made of a tree (t = "built").                                           *)

Malformed == [k |-> "malformed", v |-> << >>]
Raw(id, doc) == [t |-> "raw", id |-> id, doc |-> doc]
Built(tree) == [t |-> "built", id |-> 0, doc |-> tree]
Entry(name, data) == [entryName |-> name, data |-> data]

\* updateFile that does not look at the name
updateFile_everyEntry(zip, entryName, content) ==
    [i \in 1..Len(zip) |-> [zip[i] EXCEPT !.data = content]]

\* zip.updateFile(entryName, content)
updateFile(zip, entryName, content) ==
    [i \in 1..Len(zip) |->
        IF zip[i].entryName = entryName THEN [zip[i] EXCEPT !.data = content]
        ELSE zip[i]]

-----------------------------------------------------------------------------
(* Uploads *)

T_Yo == <<"Y", "o">>
Attrs == Obj(<<Prop("xml:space", Str(<<"p">>))>>)

\* three runs in one text node: a word, a number, a word
SlideRuns ==
    Obj(<<Prop("a:r", Arr(<<Obj(<<Prop("$", Attrs),
                                  Prop("a:t", Arr(<<Str(T_Hi), Str(T_42),
                                                    Str(T_Yo)>>))>>)
                          >>))>>)
\* a text node inside an array of arrays; a blank run, a run that is an
\* object, and a word
SlideNested ==
    Arr(<<Arr(<<Obj(<<Prop("a:t", Arr(<<Str(T_space),
                                        Obj(<<Prop("_", Str(T_Yo))>>),
                                        Str(T_Hi)>>))>>)>>)>>)
\* numbers only
SlideNumbers == Obj(<<Prop("a:t", Arr(<<Str(T_3)>>))>>)

\* a wrapped run with its attribute, and a bare number
DocRuns ==
    Obj(<<Prop("w:r", Arr(<<Obj(<<Prop("w:t",
              Arr(<<Obj(<<Prop("_", Str(T_Hi)), Prop("$", Attrs)>>),
                    Str(T_42)>>))>>)>>))>>)
\* a run with attributes and no text, and a wrapped run that holds a run
DocNested ==
    Obj(<<Prop("w:t",
              Arr(<<Obj(<<Prop("$", Attrs)>>),
                    Obj(<<Prop("_", Str(T_Hi)),
                          Prop("w:r", Arr(<<Obj(<<Prop("w:t",
                                                 Arr(<<Str(T_Yo)>>))>>)>>))
                        >>)>>))>>)
DocNumbers == Obj(<<Prop("w:t", Arr(<<Obj(<<Prop("_", Str(T_3))>>)>>))>>)

F_a == <<"a">> \o DotXml
F_b == <<"b">> \o DotXml

N_rels == <<".", "r", "e", "l", "s">>

PptxPlain ==
    <<Entry(N_ppt \o Slash \o F_a, Raw(1, SlideRuns)),
      Entry(N_ppt \o Slash \o N_slides \o Slash \o F_a, Raw(2, SlideRuns)),
      Entry(<<"x">> \o N_ppt \o Slash \o N_notesSlides \o Slash \o F_b,
            Raw(3, SlideNumbers)),
      Entry(N_ppt \o Slash \o N_slides \o Slash \o F_a \o N_rels,
            Raw(4, SlideNumbers))>>
PptxBroken ==
    <<Entry(N_ppt \o Slash \o N_slideLayouts \o Slash \o F_a, Raw(5, Malformed)),
      Entry(N_word \o Slash \o N_document \o DotXml, Raw(6, DocRuns)),
      Entry(N_ppt \o Slash \o N_slideMasters \o Slash \o F_b,
            Raw(7, SlideNested)),
      Entry(N_ppt \o Slash \o N_slides \o Slash \o F_b \o N_rels,
            Raw(8, SlideNumbers))>>
DocxPlain ==
    <<Entry(N_word \o Slash \o N_document \o DotXml, Raw(9, DocRuns)),
      Entry(N_word \o Slash \o N_styles \o DotXml, Raw(10, DocRuns)),
      Entry(N_word \o Slash \o N_header \o <<"1">> \o DotXml,
            Raw(11, DocNumbers)),
      Entry(N_word \o Slash \o N_footer \o <<"2">> \o DotXml,
            Raw(12, DocNumbers))>>
DocxBroken ==
    <<Entry(N_word \o Slash \o N_footer \o DotXml, Raw(13, Malformed)),
      Entry(N_ppt \o Slash \o N_slides \o Slash \o F_a, Raw(14, SlideRuns)),
      Entry(N_word \o Slash \o N_endnotes \o DotXml, Raw(15, DocNested)),
      Entry(N_word \o Slash \o N_word \o Slash \o N_comments \o DotXml
              \o N_rels, Raw(16, DocNumbers))>>

\* an upload is cut to its first MaxEntries entries
MaxEntries == 3
Cut(zip) ==
    SubSeq(zip, 1, IF Len(zip) < MaxEntries THEN Len(zip) ELSE MaxEntries)

Upload(kind, zip, targetLang) ==
    [kind |-> kind, zip |-> Cut(zip), targetLang |-> targetLang]

\* Two requests are served at once.  The first is any of the four uploads,
\* one of them under the short name of the language; the second is the
\* presentation with the unreadable slide.
Requests == {1, 2}
Uploads(r) ==
    IF r = 1
    THEN {Upload("pptx", PptxPlain, slovenian),
          Upload("pptx", PptxBroken, slovenian),
          Upload("docx", DocxPlain, <<"s", "l">>),
          Upload("docx", DocxBroken, slovenian)}
    ELSE {Upload("pptx", PptxBroken, slovenian)}

-----------------------------------------------------------------------------
(* processPptx / processDocx, one record per request *)

\* new AdmZip(inputPath), zip.getEntries(), stats = {total, translated, files}
NewRequest(kind, zip, targetLang) ==
    [kind |-> kind, targetLang |-> targetLang, input |-> zip, zip |-> zip,
     idx |-> 1, pc |-> "entries", parsed |-> Undefined, visits |-> << >>,
     stats |-> [total |-> 0, translated |-> 0, files |-> 0],
     log |-> << >>, output |-> << >>]

RequestOff ==
    [NewRequest("pptx", << >>, << >>) EXCEPT !.pc = "off"]

\* for (const entry of entries): an entry whose name does not match
SkipEntry(r) ==
    LET q == reqs[r]
    IN  /\ q.pc = "entries" /\ q.idx <= Len(q.zip)
        /\ ~entryNameMatches(q.kind, q.zip[q.idx].entryName)
        /\ reqs' = [reqs EXCEPT ![r].idx = q.idx + 1]
        /\ UNCHANGED <<variant, translationCache, inflight, client>>

\* a matching entry: stats.files++, then await parser.parseStringPromise
BeginEntry(r) ==
    LET q == reqs[r]
    IN  /\ q.pc = "entries" /\ q.idx <= Len(q.zip)
        /\ entryNameMatches(q.kind, q.zip[q.idx].entryName)
        /\ reqs' = [reqs EXCEPT ![r].stats.files = @ + 1, ![r].pc = "parse"]
        /\ UNCHANGED <<variant, translationCache, inflight, client>>

\* a parse failure that ends the loop over the entries
ParseFails_abort(r) ==
    LET q == reqs[r]
    IN  /\ q.pc = "parse"
        /\ q.zip[q.idx].data.doc = Malformed
        /\ reqs' = [reqs EXCEPT ![r].idx = Len(q.zip) + 1, ![r].pc = "entries"]
        /\ UNCHANGED <<variant, translationCache, inflight, client>>

\* the parser rejects the entry: catch, log, next entry
ParseFails(r) ==
    LET q == reqs[r]
    IN  /\ q.pc = "parse"
        /\ q.zip[q.idx].data.doc = Malformed
        /\ reqs' = [reqs EXCEPT ![r].idx = q.idx + 1, ![r].pc = "entries"]
        /\ UNCHANGED <<variant, translationCache, inflight, client>>

\* the parser resolves: the walker starts on the tree
ParseOk(r) ==
    LET q == reqs[r]
        parsed == q.zip[q.idx].data.doc
    IN  /\ q.pc = "parse"
        /\ parsed # Malformed
        /\ reqs' = [reqs EXCEPT ![r].parsed = parsed,
                                ![r].visits = walk(q.kind, parsed),
                                ![r].pc = "walk"]
        /\ UNCHANGED <<variant, translationCache, inflight, client>>

\* a walker that does not await translateText: it goes on to the next fragment
suspendAtFetch_noAwait(q) == [q EXCEPT !.visits = Tail(@)]

\* `await fetch(...)`: translateText, the walker above it and the driver above
\* that are suspended until the backend answers
suspendAtFetch(q) == [q EXCEPT !.pc = "fetch"]

\* a counter that counts only the fragments that came back translated
writeBack_countTranslated(q, how, ret) ==
    LET site == Head(q.visits)
    IN  [q EXCEPT !.parsed = Put(@, site, ret),
                  !.stats.translated =
                      IF how \in {"hit", "translated"} THEN @ + 1 ELSE @,
                  !.visits = Tail(@),
                  !.pc = "walk",
                  !.log = Append(@, [entry |-> q.idx, site |-> site,
                                     text |-> Get(q.parsed, site).v,
                                     how |-> how, ret |-> ret])]

\* obj[...][i] = translated; stats.translated++  (and the walk goes on)
writeBack(q, how, ret) ==
    LET site == Head(q.visits)
    IN  [q EXCEPT !.parsed = Put(@, site, ret),
                  !.stats.translated = @ + 1,
                  !.visits = Tail(@),
                  !.pc = "walk",
                  !.log = Append(@, [entry |-> q.idx, site |-> site,
                                     text |-> Get(q.parsed, site).v,
                                     how |-> how, ret |-> ret])]

\* the walker reaches a fragment and calls translateText on it
WalkCall(r) ==
    LET q == reqs[r]
    IN  /\ q.pc = "walk" /\ q.visits # << >>
        /\ LET site == Head(q.visits)
               text == Get(q.parsed, site).v
               b == translateTextBegin(translationCache, variant, text,
                                       q.targetLang)
           IN  IF b.done
               THEN /\ reqs' = [reqs EXCEPT ![r] = writeBack(q, b.how, b.ret)]
                    /\ UNCHANGED inflight
               ELSE /\ reqs' = [reqs EXCEPT ![r] = suspendAtFetch(q)]
                    /\ inflight' = inflight \cup
                           {[who |-> r, entry |-> q.idx, site |-> site,
                             body |-> fetchBody(variant, text, q.targetLang)]}
        /\ UNCHANGED <<variant, translationCache, client>>

\* the backend answers the call the request is suspended on
WalkResponse(r) ==
    LET q == reqs[r]
    IN  /\ q.pc = "fetch"
        /\ \E resp \in Responses(variant) :
              LET text == Get(q.parsed, Head(q.visits)).v
                  res == translateTextResume(translationCache, variant, text,
                                             q.targetLang, resp)
                  how == IF resp.kind = "translated" THEN "translated"
                         ELSE "failed"
              IN  /\ translationCache' = res.cache
                  /\ reqs' = [reqs EXCEPT ![r] = writeBack(q, how, res.ret)]
        /\ inflight' = {c \in inflight : c.who # r}
        /\ UNCHANGED <<variant, client>>

\* builder.buildObject(parsed); zip.updateFile(entry.entryName, ...)
BuildOk(r) ==
    LET q == reqs[r]
    IN  /\ q.pc = "walk" /\ q.visits = << >>
        /\ reqs' = [reqs EXCEPT
                      ![r].zip = updateFile(q.zip, q.zip[q.idx].entryName,
                                            Built(q.parsed)),
                      ![r].idx = q.idx + 1, ![r].pc = "entries"]
        /\ UNCHANGED <<variant, translationCache, inflight, client>>

\* builder.buildObject throws: catch, log, next entry
BuildThrows(r) ==
    LET q == reqs[r]
    IN  /\ q.pc = "walk" /\ q.visits = << >>
        /\ reqs' = [reqs EXCEPT ![r].idx = q.idx + 1, ![r].pc = "entries"]
        /\ UNCHANGED <<variant, translationCache, inflight, client>>

\* zip.writeZip(outputPath); return { outputPath, stats }
WriteZip(r) ==
    LET q == reqs[r]
    IN  /\ q.pc = "entries" /\ q.idx > Len(q.zip)
        /\ reqs' = [reqs EXCEPT ![r].output = q.zip, ![r].pc = "done"]
        /\ UNCHANGED <<variant, translationCache, inflight, client>>

-----------------------------------------------------------------------------
(* Specifications *)

Variants == {"deepl", "google"}

\* the server has started and Requests uploads have been accepted
Init ==
    /\ variant \in Variants
    /\ translationCache = << >>
    /\ inflight = {}
    /\ \E u \in [Requests -> UNION {Uploads(r) : r \in Requests}] :
          /\ \A r \in Requests : u[r] \in Uploads(r)
          /\ reqs = [r \in Requests |->
                       NewRequest(u[r].kind, u[r].zip, u[r].targetLang)]
    /\ client = ClientOff

Next ==
    \E r \in Requests :
        \/ SkipEntry(r)
        \/ BeginEntry(r)
        \/ ParseFails(r)
        \/ ParseOk(r)
        \/ WalkCall(r)
        \/ WalkResponse(r)
        \/ BuildOk(r)
        \/ BuildThrows(r)
        \/ WriteZip(r)

Spec == Init /\ [][Next]_vars

\* translateText called directly
InitClient ==
    /\ variant \in Variants
    /\ translationCache = << >>
    /\ inflight = {}
    /\ reqs = [r \in Requests |-> RequestOff]
    /\ client \in {[ClientOff EXCEPT !.text = t, !.targetLang = l,
                                     !.pc = "ready"] :
                     t \in ClientTexts, l \in ClientLangs}

NextClient == ClientCall \/ ClientResponse

SpecClient == InitClient /\ [][NextClient]_vars

-----------------------------------------------------------------------------
(* Vocabulary of the properties *)

Front(s) == SubSeq(s, 1, Len(s) - 1)
Last(s) == s[Len(s)]

\* every path into a tree
RECURSIVE Paths(_)
Paths(node) ==
    {<< >>} \cup
    IF node.k = "arr"
    THEN UNION {{<<i>> \o p : p \in Paths(node.v[i])} : i \in 1..Len(node.v)}
    ELSE IF node.k = "obj"
    THEN UNION {{<<j>> \o p : p \in Paths(node.v[j].val)} : j \in 1..Len(node.v)}
    ELSE {}

TextRunKey(kind) == IF kind = "pptx" THEN "a:t" ELSE "w:t"

\* p is the path of the text-run property (an array) of a text-bearing node
IsTextRun(kind, tree, p) ==
    /\ p # << >>
    /\ Get(tree, Front(p)).k = "obj"
    /\ Get(tree, Front(p)).v[Last(p)].key = TextRunKey(kind)
    /\ Get(tree, p).k = "arr"

NonBlankString(x) ==
    x.k = "str" /\ \E i \in 1..Len(x.v) : x.v[i] \notin WhiteSpace

\* s is the path of the text of a qualifying fragment: a non-blank string that
\* is an entry of a text run or, in a word-processing part, that an entry of a
\* text run holds under its inner key
IsBareSite(kind, tree, s) ==
    Len(s) >= 2 /\ IsTextRun(kind, tree, Front(s)) /\ NonBlankString(Get(tree, s))
IsWrappedSite(kind, tree, s) ==
    /\ kind = "docx" /\ Len(s) >= 3
    /\ IsTextRun(kind, tree, Front(Front(s)))
    /\ Get(tree, Front(s)).k = "obj"
    /\ Get(tree, Front(s)).v[Last(s)].key = "_"
    /\ NonBlankString(Get(tree, s))
QualifyingSites(kind, tree) ==
    {s \in Paths(tree) : IsBareSite(kind, tree, s) \/ IsWrappedSite(kind, tree, s)}

\* the text run that the fragment at s belongs to
RunOf(tree, s) ==
    IF Get(tree, Front(s)).k = "arr" THEN Front(s) ELSE Front(Front(s))

\* the fragment at s lies inside an entry of another w:t property
InsideWordRun(kind, tree, s) ==
    /\ kind = "docx"
    /\ \E n \in 1..(Len(RunOf(tree, s)) - 1) :
          IsTextRun(kind, tree, SubSeq(s, 1, n))

ReachedSites(kind, tree) ==
    {s \in QualifyingSites(kind, tree) : ~InsideWordRun(kind, tree, s)}

\* the call sites of a request's translateText calls in entry e, in call order
CallsIn(q, e) ==
    LET idxs == {a \in 1..Len(q.log) : q.log[a].entry = e}
        F[n \in 0..Len(q.log)] ==
            IF n = 0 THEN << >>
            ELSE IF n \in idxs THEN Append(F[n - 1], q.log[n].site)
            ELSE F[n - 1]
    IN  F[Len(q.log)]

ToSet(s) == {s[i] : i \in 1..Len(s)}
NoRepeats(s) == \A a, b \in 1..Len(s) : a # b => s[a] # s[b]

\* the walker has returned on the current entry
WalkFinished(q) == q.pc = "walk" /\ q.visits = << >>

Tree(q, e) == q.input[e].data.doc
MatchingEntries(q) ==
    {i \in 1..Len(q.input) : entryNameMatches(q.kind, q.input[i].entryName)}
WellFormedEntries(q) ==
    {i \in MatchingEntries(q) : q.input[i].data.doc # Malformed}

-----------------------------------------------------------------------------
(* Properties of the transform *)

\* C1: when a transform returns, the output package has the entries of the
\* input package, under the same names and in the same order, and every entry
\* whose name does not match the kind's pattern has the bytes it had in the
\* input, whatever the backend answered.
C1_StructuralPreservation ==
    \A r \in Requests :
        LET q == reqs[r]
        IN  q.pc = "done" =>
              /\ Len(q.output) = Len(q.input)
              /\ \A i \in 1..Len(q.input) :
                    /\ q.output[i].entryName = q.input[i].entryName
                    /\ ~entryNameMatches(q.kind, q.input[i].entryName)
                         => q.output[i].data = q.input[i].data

\* C1 witness: a transform has returned a package in which a matching entry
\* was rewritten after a failed backend call and a non-matching entry exists.
C1_Witness ==
    \E r \in Requests :
        LET q == reqs[r]
        IN  /\ q.pc = "done"
            /\ \E i \in 1..Len(q.input) :
                  ~entryNameMatches(q.kind, q.input[i].entryName)
            /\ \E i \in MatchingEntries(q) : q.output[i].data.t = "built"
            /\ \E a \in 1..Len(q.log) : q.log[a].how = "failed"

\* C10: a request has at most one backend call in flight, and only while it is
\* suspended on it; the calls of a request are made part by part in archive
\* order and, within one text run, fragment by fragment in index order; and
\* when a call is in flight the result of every earlier call on the same part
\* is already in the tree.
C10_OneCallAtATime ==
    \A r \in Requests :
        LET q == reqs[r]
            mine == {c \in inflight : c.who = r}
        IN  /\ Cardinality(mine) <= 1
            /\ \A c \in mine :
                  /\ q.pc = "fetch" /\ c.entry = q.idx /\ c.site = Head(q.visits)
                  /\ \A a \in 1..Len(q.log) :
                        /\ q.log[a].entry <= c.entry
                        /\ q.log[a].site # c.site \/ q.log[a].entry # c.entry
                        /\ q.log[a].entry = c.entry
                             => Get(q.parsed, q.log[a].site) = q.log[a].ret
            /\ \A a, b \in 1..Len(q.log) :
                  a < b =>
                    /\ q.log[a].entry <= q.log[b].entry
                    /\ (/\ q.log[a].entry = q.log[b].entry
                        /\ RunOf(Tree(q, q.log[a].entry), q.log[a].site)
                             = RunOf(Tree(q, q.log[b].entry), q.log[b].site))
                         => q.log[a].site[Len(RunOf(Tree(q, q.log[a].entry),
                                                     q.log[a].site)) + 1]
                              < q.log[b].site[Len(RunOf(Tree(q, q.log[b].entry),
                                                        q.log[b].site)) + 1]

\* C10 witness: a call is in flight for the third fragment of a text run whose
\* first fragment was answered by the backend and written back.
C10_Witness ==
    \E r \in Requests :
        LET q == reqs[r]
        IN  /\ \E c \in inflight : c.who = r /\ Last(c.site) = 3
            /\ \E a \in 1..Len(q.log) :
                  /\ q.log[a].entry = q.idx
                  /\ q.log[a].how = "translated"
                  /\ RunOf(Tree(q, q.idx), q.log[a].site)
                       = RunOf(Tree(q, q.idx), Head(q.visits))

RECURSIVE ReachedCount(_, _)
ReachedCount(q, S) ==
    IF S = {} THEN 0
    ELSE LET i == CHOOSE x \in S : TRUE
         IN  Cardinality(ReachedSites(q.kind, Tree(q, i)))
               + ReachedCount(q, S \ {i})

\* the matching entries that were parsed, walked and rebuilt
RebuiltEntries(q) == {i \in MatchingEntries(q) : q.output[i].data.t = "built"}

\* C7 (as amended): the translated counter a transform returns is the number
\* of fragments its walker handed to translateText, that is the number of
\* non-blank fragments it reaches in the parts that parsed; a fragment that
\* translateText returned unchanged (skip rule, backend failure) is counted.
C7_CountsEveryFragmentHandedOver ==
    \A r \in Requests :
        LET q == reqs[r]
        IN  /\ q.stats.translated = Len(q.log)
            /\ q.pc = "done" =>
                  q.stats.translated = ReachedCount(q, WellFormedEntries(q))

\* C7 as claimed: the counter is the number of fragments that were actually
\* translated; one returned unchanged by the skip rule or after a backend
\* failure is not counted.
C7_CountsOnlyTranslated ==
    \A r \in Requests :
        LET q == reqs[r]
        IN  q.pc = "done" =>
              q.stats.translated =
                Cardinality({a \in 1..Len(q.log) :
                               q.log[a].how \in {"hit", "translated"}})

\* C7 witness: a transform has returned after one fragment was translated, one
\* was skipped and one fell back after a backend failure.
C7_Witness ==
    \E r \in Requests :
        LET q == reqs[r]
        IN  /\ q.pc = "done"
            /\ \E a, b, c \in 1..Len(q.log) :
                  /\ q.log[a].how = "translated"
                  /\ q.log[b].how = "skip"
                  /\ q.log[c].how = "failed"

\* C4 (as amended): when a transform returns, a matching entry that did not
\* parse has the bytes it had in the input; every matching entry that parsed
\* was walked in full and is either rebuilt or, when serialization threw, left
\* with its input bytes; stats.files counts every matching entry, the failed
\* ones included, and stats.translated every translateText call made, those
\* in an entry whose serialization threw included.
C4_FaultIsolation ==
    \A r \in Requests :
        LET q == reqs[r]
        IN  q.pc = "done" =>
              /\ \A i \in MatchingEntries(q) \ WellFormedEntries(q) :
                    /\ q.output[i].data = q.input[i].data
                    /\ CallsIn(q, i) = << >>
              /\ \A i \in WellFormedEntries(q) :
                    /\ ToSet(CallsIn(q, i)) = ReachedSites(q.kind, Tree(q, i))
                    /\ \/ q.output[i].data.t = "built"
                       \/ q.output[i].data = q.input[i].data
              /\ q.stats.files = Cardinality(MatchingEntries(q))
              /\ q.stats.translated = Len(q.log)

\* C4 as claimed: the entry that failed is returned unmodified, and the
\* returned stats count only the entries that were processed successfully.
C4_StatsOnlySuccessful ==
    \A r \in Requests :
        LET q == reqs[r]
        IN  q.pc = "done" =>
              /\ \A i \in MatchingEntries(q) \ WellFormedEntries(q) :
                    q.output[i].data = q.input[i].data
              /\ q.stats.files = Cardinality(RebuiltEntries(q))
              /\ q.stats.translated =
                   Cardinality({a \in 1..Len(q.log) :
                                  q.log[a].entry \in RebuiltEntries(q)})

\* C4 witness: a transform has returned a package with a malformed matching
\* entry and a later matching entry that was walked and rebuilt.
C4_Witness ==
    \E r \in Requests :
        LET q == reqs[r]
        IN  /\ q.pc = "done"
            /\ \E i \in MatchingEntries(q) \ WellFormedEntries(q) :
                  \E j \in RebuiltEntries(q) : i < j /\ CallsIn(q, j) # << >>

\* the tree with the text of every call site of `calls` put back
RECURSIVE Restored(_, _)
Restored(tree, calls) ==
    IF calls = << >> THEN tree
    ELSE Restored(Put(tree, Head(calls).site, Str(Head(calls).text)),
                  Tail(calls))

CallRecordsIn(q, e) ==
    LET F[n \in 0..Len(q.log)] ==
            IF n = 0 THEN << >>
            ELSE IF q.log[n].entry = e THEN Append(F[n - 1], q.log[n])
            ELSE F[n - 1]
    IN  F[Len(q.log)]

\* C8: while a part is walked, every fragment written so far is a string where
\* a string was (a wrapped fragment is still an object with its other
\* properties, a bare fragment is a string), and nothing else in the tree has
\* changed, whatever the backend answered.
C8_ShapePreserved ==
    \A r \in Requests :
        LET q == reqs[r]
            calls == CallRecordsIn(q, q.idx)
        IN  q.pc \in {"walk", "fetch"} =>
              /\ \A a \in 1..Len(calls) : Get(q.parsed, calls[a].site).k = "str"
              /\ Restored(q.parsed, calls) = Tree(q, q.idx)

\* C6: the cache is append-only: the translation it holds for a (language
\* code, text) pair is never removed and never replaced by another
\* translation, by any step of any request, so that every later translateText
\* call for the pair, which reads the cache, returns the first translation
\* produced for it.
C6_AppendOnlyCache ==
    [][\A key \in DOMAIN translationCache :
          translationCache[key].k = "str" =>
             /\ key \in DOMAIN translationCache'
             /\ translationCache'[key].k = "str"
                  => translationCache'[key] = translationCache[key]]_vars

-----------------------------------------------------------------------------
(* Properties of translateText, called directly *)

\* the calls that have returned
Returned == Len(client.hist)
\* the first call has got as far as its return or its fetch
Started == Returned >= 1 \/ client.pc = "fetch"

\* C2 (as amended): of two calls in a row with the same (text, targetLang),
\* for a text the skip rule lets through: in the DeepL build, when the backend
\* answered the first call with a translations[0] entry, the second call makes
\* no remote call and returns what the first returned; when the first call
\* fell back after a backend failure, and always in the Google build, which
\* has no cache, the second call makes a remote call of its own.
C2_SecondCallAfterSuccessIsCached ==
    (Returned >= 2 /\ ~translateTextSkips(variant, client.text)) =>
        IF variant = "deepl" /\ client.hist[1].how \in {"translated", "entryNoText"}
        THEN /\ client.remote = 1
             /\ client.hist[2].how = "hit"
             /\ client.hist[2].ret = client.hist[1].ret
        ELSE /\ client.remote >= 2
             /\ client.hist[2].how \notin {"hit", "skip"}

\* C2 as claimed: two calls with the same (text, targetLang) make at most one
\* remote call and return the same result, for every text the skip rule lets
\* through and every backend outcome of the first call.
C2_AtMostOneRemoteCall ==
    (Returned >= 2 /\ ~translateTextSkips(variant, client.text)) =>
        /\ client.remote <= 1
        /\ client.hist[2].ret = client.hist[1].ret

\* C2 witness: in the DeepL build the first call was translated by the backend
\* and the second was answered from the cache.
C2_Witness ==
    /\ variant = "deepl" /\ Returned >= 2
    /\ client.hist[1].how = "translated" /\ client.hist[2].how = "hit"
    /\ client.remote = 1

\* C3: a call whose backend call failed in any way returns its input text.
C3_FailureReturnsInput ==
    \A n \in 1..Returned :
        client.hist[n].how \in FailureKinds(variant)
            => client.hist[n].ret = Str(client.text)

\* the characters of the skip pattern, build by build
C9_ClassDeepl ==
    {"0", "1", "2", "3", "4", "5", "6", "7", "8", "9", " ", "\t", "\n",
     ".", ",", "-", "+", "%", "EUR", "$", "GBP",
     ":", ";", "!", "?", "(", ")", "[", "]", "/", "\\"}
C9_ClassGoogle ==
    {"0", "1", "2", "3", "4", "5", "6", "7", "8", "9", " ", "\t", "\n",
     ".", ",", "-", "+", "%", "EUR", "$", "GBP"}
C9_Blank(text) == \A i \in 1..Len(text) : text[i] \in {" ", "\t", "\n"}
C9_ShortAfterTrim(text) ==
    \/ C9_Blank(text)
    \/ \E i \in 1..Len(text) :
          /\ text[i] \notin {" ", "\t", "\n"}
          /\ \A j \in 1..Len(text) : j # i => text[j] \in {" ", "\t", "\n"}
C9_InClass(v, text) ==
    \A i \in 1..Len(text) :
        text[i] \in (IF v = "deepl" THEN C9_ClassDeepl ELSE C9_ClassGoogle)

\* no remote call, no cache write, every call returned the input
C9_Untouched ==
    /\ client.remote = 0 /\ inflight = {} /\ translationCache = << >>
    /\ \A n \in 1..Returned :
          client.hist[n].ret = Str(client.text)

\* C9 (as amended): translateText returns its input unchanged, with no remote
\* call and no cache write, when the input is empty, blank, shorter than two
\* characters once trimmed, or made only of the characters of the build's skip
\* pattern: digits, white space and . , - + % euro $ pound, and in the DeepL
\* build also : ; ! ? ( ) [ ] / \ ; any other input, "Total: 10 euro" or "#1"
\* or the yen sign with 5, goes to the backend.
C9_SkipRuleByPattern ==
    IF C9_ShortAfterTrim(client.text) \/ C9_InClass(variant, client.text)
    THEN C9_Untouched
    ELSE Started => client.remote >= 1

\* what the claim calls punctuation and currency symbols, among the characters
\* of the inputs
C9_Punctuation ==
    {".", ",", "-", "+", "%", ":", ";", "!", "?", "(", ")", "[", "]", "/",
     "\\", "#"}
C9_Currency == {"EUR", "$", "GBP", "YEN"}

\* C9 as claimed: the input is returned unchanged, with no remote call and no
\* cache write, whenever it is empty, blank, shorter than two characters once
\* trimmed, or made only of digits, punctuation, currency symbols and white
\* space; and "Total: 10 euro" is not skipped.
C9_SkipRuleAsClaimed ==
    /\ (\/ C9_ShortAfterTrim(client.text)
        \/ \A i \in 1..Len(client.text) :
              client.text[i] \in Digits \cup WhiteSpace \cup C9_Punctuation
                                   \cup C9_Currency)
          => C9_Untouched
    /\ (client.text = T_total /\ Started) => client.remote >= 1

\* C9 witness: both calls on "12,34 euro" have returned without a remote call.
C9_Witness ==
    /\ client.text = T_price /\ client.pc = "done"
    /\ client.remote = 0 /\ Returned = ClientCalls

=============================================================================
